---- MODULE Spec2Model ----
\* A state-machine model of the ingestion core of aggroNATION:
\*   - the RSS sync pass (utils/rss-parser.ts: parseFeed, processFeedItems,
\*     processAllFeeds) over the Feed and Article collections, and
\*   - the XAccount sync-health bookkeeping and sync eligibility
\*     (models/XAccount.ts), and
\*   - the hybrid ranking scores of AIModel, GitHubRepository and the
\*     HuggingFace adapter (models/AIModel.ts, models/GitHubRepository.ts,
\*     utils/huggingface.ts).
\* Every pass is an async function; its atomic steps are the stretches of code
\* between two awaits, and passes interleave at those awaits.
EXTENDS Integers, Sequences, FiniteSets, TLC

VARIABLES
    articles,   \* the Article collection: a set of stored documents
    feedStore,  \* the Feed collection: feed id -> stored document
    pass,       \* pass id -> the locals and position of one processAllFeeds call
    lastRun,    \* history: the last processFeedItems call that returned
    accounts,   \* the XAccount collection: handle -> stored document
    streak,     \* history: handle -> consecutive markSyncError calls (see Streak)
    now,        \* the wall clock read by new Date()
    selected,   \* the handles returned by the last getAccountsNeedingSync call
    aimodel,    \* one AIModel: the document instance and its stored record
    repo,       \* one stored GitHubRepository document
    hub,        \* the HuggingFace client: RATE_LIMIT, the response cache, the calls
    db,         \* the mongoose connection cache, the connect attempts, the callers
    ser         \* one value handed to serializeDoc, its result, the result's result

vars ==
    <<articles, feedStore, pass, lastRun, accounts, streak, now, selected, aimodel, repo, hub,
      db, ser>>

----------------------------------------------------------------------------
\* Bounds and domains

\* longest parsed feed (number of items parseFeed returns)
MaxItems == 2
\* engagement events (likes, dislikes, views) over one history
MaxEngage == 1
\* last clock value
MaxTime == 3
\* largest syncErrorCount the model follows
MaxErrCount == 6

FeedIds == {"f1", "f2"}
Links == {"u1", "u2"}
\* titles are strings, as sequences of characters: "a" and " b" (padded)
Titles == {<<"a">>, <<" ", "b">>}
Items == [link : Links, title : Titles]
PassIds == {"scheduled", "manual"}
Handles == {"x1", "x2"}
ErrorTexts == {"e1", "e2"}

\* all sequences over S of length 0..n
RECURSIVE SeqsUpTo(_, _)
SeqsUpTo(S, n) ==
    IF n = 0 THEN {<<>>}
    ELSE LET shorter == SeqsUpTo(S, n - 1)
         IN  shorter \cup {Append(s, x) : s \in {t \in shorter : Len(t) = n - 1}, x \in S}

Batches == SeqsUpTo(Items, MaxItems)
ShortBatches == SeqsUpTo(Items, 1)

\* the Feed collection in storage order
FeedOrder == <<"f1", "f2">>

----------------------------------------------------------------------------
\* Article schema (models/Article.ts)

\* String setter `trim: true`: strip leading and trailing blanks
RECURSIVE TrimLeft(_)
TrimLeft(s) == IF s # <<>> /\ Head(s) = " " THEN TrimLeft(Tail(s)) ELSE s

RECURSIVE TrimRight(_)
TrimRight(s) ==
    IF s # <<>> /\ s[Len(s)] = " " THEN TrimRight(SubSeq(s, 1, Len(s) - 1)) ELSE s

Trim(s) == TrimRight(TrimLeft(s))

\* virtual engagementScore, in tenths: likes*2 + dislikes*(-1) + views*0.1
engagementScore(a) == a.likes * 20 - a.dislikes * 10 + a.views

\* the value of `existingArticle` when findOne resolves to null
Null == [none |-> TRUE]

\* new Article({...}) as built by processFeedItems, with the schema defaults
NewArticle(item, f) ==
    [url |-> item.link, originalUrl |-> item.link, title |-> Trim(item.title),
     feedId |-> f, likes |-> 0, dislikes |-> 0, views |-> 0, ranking |-> 0]

\* the unique index on url: a save of `a` is accepted only if no stored
\* document has its url
UniqueUrlFree(store, a) == \A b \in store : b.url # a.url

\* the $or filter of the lookup; mongoose applies the schema's setters (trim)
\* to the filter's title as it does on save
MatchesUrl(b, item) == b.url = item.link
MatchesOriginalUrl(b, item) == b.originalUrl = item.link
MatchesTitle(b, item, f) == b.title = Trim(item.title) /\ b.feedId = f
\* the filter with its two url clauses left out
MatchingByTitle(store, item, f) == {b \in store : MatchesTitle(b, item, f)}

Matching(store, item, f) ==
    {b \in store : MatchesUrl(b, item) \/ MatchesOriginalUrl(b, item)
                   \/ MatchesTitle(b, item, f)}

\* Article.findOne({$or: [...]}): some matching document, or null; which of
\* several matching documents is returned is the database's choice
FindOneResults(store, item, f) ==
    IF Matching(store, item, f) = {} THEN {Null} ELSE Matching(store, item, f)

----------------------------------------------------------------------------
\* processAllFeeds / processFeedItems (utils/rss-parser.ts)

IdlePass ==
    [pc |-> "idle", feeds |-> <<>>, fi |-> 0, items |-> <<>>, ii |-> 0,
     saved |-> 0, skipped |-> 0, errors |-> 0, existingArticle |-> Null,
     writeFailures |-> 0,   \* history: save() rejections in this processFeedItems call
     rerun |-> "no",        \* history: whether this call repeats the last one (IsRerun)
     totalSaved |-> 0, totalSkipped |-> 0, totalErrors |-> 0,
     feedResults |-> <<>>]

CurFeed(ps) == ps.feeds[ps.fi]
CurItem(ps) == ps.items[ps.ii]

\* a pass is handling feed f from the fetch of f until f's result is recorded
Handling(ps, f) ==
    /\ ps.pc \in {"parse", "find", "save", "status", "catch"}
    /\ CurFeed(ps) = f

\* the for loop of processAllFeeds moves to the next feed, or the function
\* returns its totals
NextFeed(ps) ==
    LET cleared == [ps EXCEPT !.items = <<>>, !.ii = 0, !.saved = 0,
                              !.skipped = 0, !.errors = 0, !.rerun = "no",
                              !.writeFailures = 0, !.existingArticle = Null]
    IN  IF ps.fi < Len(ps.feeds)
        THEN [cleared EXCEPT !.fi = @ + 1, !.pc = "parse"]
        ELSE [cleared EXCEPT !.pc = "done"]

\* processFeedItems returns {saved, skipped, errors}; processAllFeeds adds it
\* to the totals, pushes the 'success' entry and awaits the status update
Returned(ps) ==
    [ps EXCEPT !.pc = "status",
               !.totalSaved = @ + ps.saved,
               !.totalSkipped = @ + ps.skipped,
               !.totalErrors = @ + ps.errors,
               !.feedResults = Append(@, [feedId |-> CurFeed(ps), status |-> "success",
                                          saved |-> ps.saved, skipped |-> ps.skipped,
                                          errors |-> ps.errors])]

\* the for loop of processFeedItems moves to the next item, or returns
NextItem(ps) ==
    IF ps.ii < Len(ps.items)
    THEN [ps EXCEPT !.ii = @ + 1, !.pc = "find"]
    ELSE Returned(ps)

\* the catch block of processAllFeeds pushes an 'error' entry
Caught(ps) ==
    [ps EXCEPT !.pc = "catch",
               !.feedResults = Append(@, [feedId |-> CurFeed(ps), status |-> "error"])]

\* Feed.find({isActive: true}): the active feeds, in storage order
ActiveFeeds(store) == SelectSeq(FeedOrder, LAMBDA f : store[f].isActive)

\* processAllFeeds is called: connectToDatabase, Feed.find, then the fetch of
\* the first feed (or the return, when no feed is active)
Start(p) ==
    /\ pass[p].pc \in {"idle", "done", "aborted"}
    /\ pass' = [pass EXCEPT ![p] =
                  IF ActiveFeeds(feedStore) = <<>>
                  THEN [IdlePass EXCEPT !.pc = "done"]
                  ELSE [IdlePass EXCEPT !.pc = "parse", !.fi = 1,
                                        !.feeds = ActiveFeeds(feedStore)]]
    /\ UNCHANGED <<articles, feedStore, lastRun, accounts, streak, now, selected, aimodel, repo, hub, db, ser>>

\* parseFeed resolves to null (the fetch or the parse threw): a 'failed'
\* entry is pushed and the loop continues
ParseNull(p) ==
    /\ pass[p].pc = "parse"
    /\ pass' = [pass EXCEPT ![p] =
                  NextFeed([@ EXCEPT !.feedResults =
                      Append(@, [feedId |-> CurFeed(pass[p]), status |-> "failed"])])]
    /\ UNCHANGED <<articles, feedStore, lastRun, accounts, streak, now, selected, aimodel, repo, hub, db, ser>>

\* history: what the processFeedItems call that just returned did
NoRun == [none |-> TRUE]
RunRecord(ps, store) ==
    [feedId |-> CurFeed(ps), items |-> ps.items, errors |-> ps.errors, store |-> store]

\* history: a processFeedItems call over feed f and `batch` that starts now
\* repeats the last call that returned, with the store as that call left it
IsRerun(f, batch) ==
    /\ lastRun # NoRun
    /\ lastRun.feedId = f
    /\ lastRun.items = batch
    /\ lastRun.store = articles

RerunKind(f, batch) ==
    IF ~IsRerun(f, batch) THEN "no"
    ELSE IF lastRun.errors = 0 THEN "afterClean" ELSE "afterErrors"

\* parseFeed resolves to a parsed feed and processFeedItems starts: it issues
\* the lookup of the first item, or returns at once on an empty feed
ParseOk(p, batch) ==
    /\ pass[p].pc = "parse"
    /\ pass' = [pass EXCEPT ![p] =
                  NextItem([@ EXCEPT !.items = batch, !.ii = 0,
                                     !.rerun = RerunKind(CurFeed(pass[p]), batch)])]
    /\ lastRun' = IF IsRerun(CurFeed(pass[p]), batch) THEN lastRun ELSE NoRun
    /\ UNCHANGED <<articles, feedStore, accounts, streak, now, selected, aimodel, repo, hub, db, ser>>

\* parseFeed resolves but connectToDatabase inside processFeedItems throws:
\* the exception reaches the catch block of processAllFeeds
ConnectFails(p) ==
    /\ pass[p].pc = "parse"
    /\ pass' = [pass EXCEPT ![p] = Caught(@)]
    /\ UNCHANGED <<articles, feedStore, lastRun, accounts, streak, now, selected, aimodel, repo, hub, db, ser>>

\* FindOne with the `continue` of the match branch left out: a matched item
\* is counted skipped and then saved all the same
FindOneNoContinue(p) ==
    /\ pass[p].pc = "find"
    /\ \E r \in FindOneResults(articles, CurItem(pass[p]), CurFeed(pass[p])) :
          pass' = [pass EXCEPT ![p] =
                     IF r # Null
                     THEN [@ EXCEPT !.existingArticle = r, !.skipped = @ + 1, !.pc = "save"]
                     ELSE [@ EXCEPT !.existingArticle = r, !.pc = "save"]]
    /\ UNCHANGED <<articles, feedStore, lastRun, accounts, streak, now, selected, aimodel, repo, hub, db, ser>>

\* Article.findOne resolves: a match is counted skipped and the loop goes on,
\* null leads to article.save()
FindOne(p) ==
    /\ pass[p].pc = "find"
    /\ \E r \in FindOneResults(articles, CurItem(pass[p]), CurFeed(pass[p])) :
          pass' = [pass EXCEPT ![p] =
                     IF r # Null
                     THEN NextItem([@ EXCEPT !.existingArticle = r, !.skipped = @ + 1])
                     ELSE [@ EXCEPT !.existingArticle = r, !.pc = "save"]]
    /\ UNCHANGED <<articles, feedStore, lastRun, accounts, streak, now, selected, aimodel, repo, hub, db, ser>>

\* SaveOk with the saved++ left out
SaveOkUncounted(p) ==
    /\ pass[p].pc = "save"
    /\ UniqueUrlFree(articles, NewArticle(CurItem(pass[p]), CurFeed(pass[p])))
    /\ articles' = articles \cup {NewArticle(CurItem(pass[p]), CurFeed(pass[p]))}
    /\ pass' = [pass EXCEPT ![p] = NextItem(@)]
    /\ UNCHANGED <<feedStore, lastRun, accounts, streak, now, selected, aimodel, repo, hub, db, ser>>

\* article.save() resolves: the document is stored and counted saved
SaveOk(p) ==
    /\ pass[p].pc = "save"
    /\ UniqueUrlFree(articles, NewArticle(CurItem(pass[p]), CurFeed(pass[p])))
    /\ articles' = articles \cup {NewArticle(CurItem(pass[p]), CurFeed(pass[p]))}
    /\ pass' = [pass EXCEPT ![p] = NextItem([@ EXCEPT !.saved = @ + 1])]
    /\ UNCHANGED <<feedStore, lastRun, accounts, streak, now, selected, aimodel, repo, hub, db, ser>>

\* SaveFails with the errors++ of the per-item catch left out
SaveFailsUncounted(p) ==
    /\ pass[p].pc = "save"
    /\ pass' = [pass EXCEPT ![p] = NextItem([@ EXCEPT !.writeFailures = @ + 1])]
    /\ UNCHANGED <<articles, feedStore, lastRun, accounts, streak, now, selected, aimodel, repo, hub, db, ser>>

\* article.save() rejects (duplicate key on url, a validation error, or the
\* database failing): the per-item catch counts an error and the loop goes on
SaveFails(p) ==
    /\ pass[p].pc = "save"
    /\ pass' = [pass EXCEPT ![p] =
                  NextItem([@ EXCEPT !.errors = @ + 1, !.writeFailures = @ + 1])]
    /\ UNCHANGED <<articles, feedStore, lastRun, accounts, streak, now, selected, aimodel, repo, hub, db, ser>>

\* Feed.findByIdAndUpdate(feed._id, {lastFetchedAt, lastFetchStatus}): neither
\* path is in FeedSchema, so no schema field of the stored feed changes
StatusUpdate(store, f) == store

\* the status update after a 'success' entry resolves
StatusOk(p) ==
    /\ pass[p].pc = "status"
    /\ feedStore' = StatusUpdate(feedStore, CurFeed(pass[p]))
    /\ lastRun' = RunRecord(pass[p], articles)
    /\ pass' = [pass EXCEPT ![p] = NextFeed(@)]
    /\ UNCHANGED <<articles, accounts, streak, now, selected, aimodel, repo, hub, db, ser>>

\* the status update after a 'success' entry rejects: it is inside the try,
\* so the catch block runs
StatusFails(p) ==
    /\ pass[p].pc = "status"
    /\ lastRun' = RunRecord(pass[p], articles)
    /\ pass' = [pass EXCEPT ![p] = Caught(@)]
    /\ UNCHANGED <<articles, feedStore, accounts, streak, now, selected, aimodel, repo, hub, db, ser>>

\* the status update of the catch block resolves
CatchOk(p) ==
    /\ pass[p].pc = "catch"
    /\ feedStore' = StatusUpdate(feedStore, CurFeed(pass[p]))
    /\ pass' = [pass EXCEPT ![p] = NextFeed(@)]
    /\ UNCHANGED <<articles, lastRun, accounts, streak, now, selected, aimodel, repo, hub, db, ser>>

\* the status update of the catch block rejects: nothing catches it, the
\* promise of processAllFeeds rejects and the remaining feeds are not handled
CatchFails(p) ==
    /\ pass[p].pc = "catch"
    /\ pass' = [pass EXCEPT ![p].pc = "aborted"]
    /\ UNCHANGED <<articles, feedStore, lastRun, accounts, streak, now, selected, aimodel, repo, hub, db, ser>>

----------------------------------------------------------------------------
\* Engagement methods of the Article model (models/Article.ts)

Engagement(a) == a.likes + a.dislikes + a.views
TotalEngagement == IF articles = {} THEN 0
                   ELSE LET RECURSIVE Sum(_)
                            Sum(S) == IF S = {} THEN 0
                                      ELSE LET x == CHOOSE y \in S : TRUE
                                           IN  Engagement(x) + Sum(S \ {x})
                        IN  Sum(articles)

\* incrementViews: this.views += 1; save
incrementViews(a) == [a EXCEPT !.views = @ + 1]

\* addEngagement: the counter, then this.ranking = this.engagementScore; save
addEngagement(a, type) ==
    LET counted == IF type = "like" THEN [a EXCEPT !.likes = @ + 1]
                   ELSE [a EXCEPT !.dislikes = @ + 1]
    IN  [counted EXCEPT !.ranking = engagementScore(counted)]

IncrementViews(a) ==
    /\ a \in articles
    /\ TotalEngagement < MaxEngage
    /\ articles' = (articles \ {a}) \cup {incrementViews(a)}
    /\ lastRun' = NoRun
    /\ UNCHANGED <<feedStore, pass, accounts, streak, now, selected, aimodel, repo, hub, db, ser>>

AddEngagement(a, type) ==
    /\ a \in articles
    /\ TotalEngagement < MaxEngage
    /\ articles' = (articles \ {a}) \cup {addEngagement(a, type)}
    /\ lastRun' = NoRun
    /\ UNCHANGED <<feedStore, pass, accounts, streak, now, selected, aimodel, repo, hub, db, ser>>

----------------------------------------------------------------------------
\* XAccount sync health (models/XAccount.ts)

Categories == {"AI_NEWS", "RESEARCH"}
NoDate == -1
NoError == "undefined"

\* auto-disable threshold of markSyncError
DisableThreshold == 5

\* createXAccount defaults, with the category and the enabled flag as given
createXAccount(category, isEnabled) ==
    [category |-> category, isEnabled |-> isEnabled, syncErrorCount |-> 0,
     lastSyncAt |-> NoDate, lastSyncError |-> NoError]

\* markSyncSuccess without the reset of syncErrorCount
markSyncSuccessKeepsCount(acc, t) ==
    [acc EXCEPT !.lastSyncAt = t, !.lastSyncError = NoError]

\* markSyncSuccess: lastSyncAt = new Date(); syncErrorCount = 0;
\* lastSyncError = undefined; save
markSyncSuccess(acc, t) ==
    [acc EXCEPT !.lastSyncAt = t, !.syncErrorCount = 0, !.lastSyncError = NoError]

\* markSyncError comparing with > where the code has >=
markSyncErrorLate(acc, error) ==
    LET counted == [acc EXCEPT !.syncErrorCount = @ + 1, !.lastSyncError = error]
    IN  IF counted.syncErrorCount > DisableThreshold
        THEN [counted EXCEPT !.isEnabled = FALSE]
        ELSE counted

\* markSyncError: syncErrorCount += 1; lastSyncError = error; disable at 5; save
markSyncError(acc, error) ==
    LET counted == [acc EXCEPT !.syncErrorCount = @ + 1, !.lastSyncError = error]
    IN  IF counted.syncErrorCount >= DisableThreshold
        THEN [counted EXCEPT !.isEnabled = FALSE]
        ELSE counted

\* bulkUpdateCategory: updateMany({category}, {isEnabled})
bulkUpdateCategory(accs, category, isEnabled) ==
    [h \in DOMAIN accs |->
        IF accs[h].category = category THEN [accs[h] EXCEPT !.isEnabled = isEnabled]
        ELSE accs[h]]

\* history: the number of markSyncError calls made on an account, one after
\* the other, since it was enabled with syncErrorCount 0; -1 when some other
\* operation came in between or the account did not start from that state
Streak(acc) == IF acc.isEnabled /\ acc.syncErrorCount = 0 THEN 0 ELSE -1

MarkSyncSuccess(h) ==
    /\ accounts' = [accounts EXCEPT ![h] = markSyncSuccess(@, now)]
    /\ streak' = [streak EXCEPT ![h] = Streak(accounts'[h])]
    /\ UNCHANGED <<articles, feedStore, pass, lastRun, now, selected, aimodel, repo, hub, db, ser>>

MarkSyncError(h, error) ==
    /\ accounts[h].syncErrorCount < MaxErrCount
    /\ accounts' = [accounts EXCEPT ![h] = markSyncError(@, error)]
    /\ streak' = [streak EXCEPT ![h] = IF @ >= 0 THEN @ + 1 ELSE -1]
    /\ UNCHANGED <<articles, feedStore, pass, lastRun, now, selected, aimodel, repo, hub, db, ser>>

BulkUpdateCategory(category, isEnabled) ==
    /\ accounts' = bulkUpdateCategory(accounts, category, isEnabled)
    /\ streak' = [h \in Handles |->
                    IF accounts[h].category = category THEN Streak(accounts'[h])
                    ELSE streak[h]]
    /\ UNCHANGED <<articles, feedStore, pass, lastRun, now, selected, aimodel, repo, hub, db, ser>>

\* time passes
Tick ==
    /\ now < MaxTime
    /\ now' = now + 1
    /\ UNCHANGED <<articles, feedStore, pass, lastRun, accounts, streak, selected, aimodel, repo, hub, db, ser>>

----------------------------------------------------------------------------
\* HuggingFace adapter score (utils/huggingface.ts)

\* Scores, ratings and their parts are JavaScript Numbers. The model holds
\* them as whole numbers of thousandths; on the domains below every product
\* and quotient of the code is a whole number of thousandths, so nothing is
\* rounded that the code does not round.
Unit == 1000

Min(a, b) == IF a < b THEN a ELSE b
Max(a, b) == IF a > b THEN a ELSE b

\* upstream hub models: below, at and above the reference counts
Downloads == {0, 1000000, 20000000}
Likes == {0, 500, 2000}
HubModels == [downloads : Downloads, likes : Likes, trending : BOOLEAN]

\* 10M as reference point
maxDownloads == 10000000

\* Math.min((hfModel.downloads / maxDownloads) * 70, 70) without a cap
downloadScoreUncapped(hfModel) ==
    (hfModel.downloads * 70) \div (maxDownloads \div Unit)

\* Math.min((hfModel.downloads / maxDownloads) * 70, 70)
downloadScore(hfModel) ==
    Min((hfModel.downloads * 70) \div (maxDownloads \div Unit), 70 * Unit)

\* Math.min((hfModel.likes / 1000) * 20, 20)
likeScore(hfModel) == Min((hfModel.likes * 20 * Unit) \div 1000, 20 * Unit)

\* hfModel.trending ? 10 : 0
trendingBonus(hfModel) == IF hfModel.trending THEN 10 * Unit ELSE 0

\* transformHuggingFaceModel: the fields of the result that AIModel reads
transformHuggingFaceModel(hfModel) ==
    [downloads |-> hfModel.downloads,
     likes |-> hfModel.likes,
     trending |-> hfModel.trending,
     huggingFaceScore |-> downloadScore(hfModel) + likeScore(hfModel) + trendingBonus(hfModel)]

\* model.downloads > 100000: the trending threshold of getModelStats
TrendingThreshold == 100000

\* getModelStats on the model that getModelDetails resolved to
getModelStats(model) ==
    LET statsBonus == IF model.downloads > TrendingThreshold THEN 10 * Unit ELSE 0
    IN  [downloads |-> model.downloads,
         likes |-> model.likes,
         trending |-> statsBonus > 0,
         score |-> downloadScore(model) + likeScore(model) + statsBonus]

----------------------------------------------------------------------------
\* AIModel (models/AIModel.ts)

\* vote counts and average ratings handed to updateUserRating; 6 stars is
\* above the schema's max of 5
VoteCounts == {0, 50, 200}
Ratings == {0, 2500, 5000, 6000}

\* schema defaults of the modelled paths
NewAIModel ==
    [downloads |-> 0, likes |-> 0, trending |-> FALSE, huggingFaceScore |-> 0,
     lastSynced |-> NoDate, userVotes |-> 0, userRating |-> 0, userScore |-> 0,
     finalScore |-> 0]

\* the min/max validators of the schema, which save() runs before the
\* pre-save hook
ValidAIModel(doc) ==
    /\ doc.downloads >= 0
    /\ doc.likes >= 0
    /\ doc.huggingFaceScore >= 0 /\ doc.huggingFaceScore <= 100 * Unit
    /\ doc.userVotes >= 0
    /\ doc.userRating >= 0 /\ doc.userRating <= 5 * Unit
    /\ doc.userScore >= 0 /\ doc.userScore <= 100 * Unit
    /\ doc.finalScore >= 0 /\ doc.finalScore <= 100 * Unit

\* the user score of the pre-save hook without its userVotes > 0 test
userScoreAlways(doc) ==
    (doc.userRating * 80) \div 5 + Min((doc.userVotes * 20 * Unit) \div 100, 20 * Unit)

\* pre-save hook, first half: ratingScore + popularityBonus, or 0 without votes
userScoreOf(doc) ==
    IF doc.userVotes > 0
    THEN LET ratingScore == (doc.userRating * 80) \div 5
             popularityBonus == Min((doc.userVotes * 20 * Unit) \div 100, 20 * Unit)
         IN  ratingScore + popularityBonus
    ELSE 0

\* the final score with the user weight at 0.25
finalScoreHeavy(huggingFaceScore, userScore) ==
    (huggingFaceScore * 85 + userScore * 25) \div 100

\* pre-save hook, second half: huggingFaceScore * 0.85 + userScore * 0.15
finalScoreOf(huggingFaceScore, userScore) ==
    (huggingFaceScore * 85 + userScore * 15) \div 100

\* the pre-save hook leaving finalScore as it was
preSaveKeepsFinal(doc) == [doc EXCEPT !.userScore = userScoreOf(doc)]

\* AIModelSchema.pre('save')
preSave(doc) ==
    LET scored == [doc EXCEPT !.userScore = userScoreOf(doc)]
    IN  [scored EXCEPT !.finalScore = finalScoreOf(scored.huggingFaceScore, scored.userScore)]

\* doc.save(): validation, then the pre-save hook, then the write. A rejected
\* save leaves the stored record as it was and the instance as assigned.
saveAIModel(m) ==
    IF ValidAIModel(m.doc)
    THEN [doc |-> preSave(m.doc), stored |-> preSave(m.doc)]
    ELSE m

\* updateUserRating(newVoteCount, newAvgRating), up to its save
updateUserRating(doc, newVoteCount, newAvgRating) ==
    [doc EXCEPT !.userVotes = newVoteCount, !.userRating = newAvgRating]

\* syncFromHuggingFace(hfData), up to its save; on the counts of HubModels
\* `x || 0` is x
syncFromHuggingFace(doc, hfData, t) ==
    [doc EXCEPT !.downloads = hfData.downloads,
                !.likes = hfData.likes,
                !.trending = hfData.trending,
                !.huggingFaceScore = hfData.huggingFaceScore,
                !.lastSynced = t]

UpdateUserRating(newVoteCount, newAvgRating) ==
    /\ aimodel' = saveAIModel([aimodel EXCEPT
                      !.doc = updateUserRating(@, newVoteCount, newAvgRating)])
    /\ UNCHANGED <<articles, feedStore, pass, lastRun, accounts, streak, now, selected, repo, hub, db, ser>>

\* the sync hands over what the adapter made of the upstream model
SyncFromHuggingFace(hfModel) ==
    /\ aimodel' = saveAIModel([aimodel EXCEPT
                      !.doc = syncFromHuggingFace(@, transformHuggingFaceModel(hfModel), now)])
    /\ UNCHANGED <<articles, feedStore, pass, lastRun, accounts, streak, now, selected, repo, hub, db, ser>>

\* the instance is dropped and the model is loaded again (findById)
ReloadAIModel ==
    /\ aimodel.doc # aimodel.stored
    /\ aimodel' = [aimodel EXCEPT !.doc = aimodel.stored]
    /\ UNCHANGED <<articles, feedStore, pass, lastRun, accounts, streak, now, selected, repo, hub, db, ser>>

----------------------------------------------------------------------------
\* GitHubRepository (models/GitHubRepository.ts)

\* views and clicks counted on one repository over one history
MaxRepoHits == 2

\* clock readings of Date.now(), in days
Days == {0, 7, 70}
\* stargazersCount and forksCount: one less than a power of ten, so that
\* log10(count + 1) is a whole number
StarCounts == {0, 99, 9999}
ForkCounts == {0, 99}
IssueCounts == {0, 50, 200}
TopicSets == {{}, {"ai", "web"}, {"ai", "nlp"}}
DailyStars == {0, 10}
UserScores == {0, 50, 100}

\* Math.log10 on the powers of ten
RECURSIVE Log10(_)
Log10(n) == IF n < 10 THEN 0 ELSE 1 + Log10(n \div 10)

\* Math.round(n / d) for n >= 0: the nearest whole number, halves upwards
Round(n, d) == (2 * n + d) \div (2 * d)

\* topic.includes(aiTopic) / topic.includes(keyword) for some entry of the
\* list, on the topics of TopicSets
IsAITopic(topic) == topic \in {"ai", "nlp"}

\* calculateTrendingScore, Date.now() reading day t. issuesScore is held in
\* tenths and activityScore in sevenths, the weighted sum in 1/7000:
\* 0.4, 0.2, 0.15 / 10, 0.15 / 7 and 0.1 times 7000.
calculateTrendingScore(r, t) ==
    LET normalizedStars == Min(Log10(r.stargazersCount + 1) * 10, 40)
        normalizedForks == Min(Log10(r.forksCount + 1) * 5, 20)
        issuesTenths == Max(150 - r.openIssuesCount, 0)
        daysSinceLastPush == IF r.pushedAt # NoDate THEN t - r.pushedAt ELSE 365
        activitySevenths == Max(105 - daysSinceLastPush, 0)
        topicsScore == Cardinality({topic \in r.topics : IsAITopic(topic)}) * 2
        score7000 == normalizedStars * 2800 + normalizedForks * 1400
                     + issuesTenths * 105 + activitySevenths * 150 + topicsScore * 700
    IN  Min(Round(score7000, 7000), 100)

\* Math.round(githubScore * 0.85 + userScore * 0.15)
roundedFinalScore(githubScore, userScore) == Round(githubScore * 85 + userScore * 15, 100)

\* calculateFinalScore; on UserScores `this.userScore || 0` is userScore
calculateFinalScore(r, t) == roundedFinalScore(calculateTrendingScore(r, t), r.userScore)

\* pre-save hook, the auto-categorisation: name and description of the
\* modelled repository hold no AI keyword, its topics may
categorise(r) ==
    LET hasAIKeywords == \E topic \in r.topics : IsAITopic(topic)
    IN  IF hasAIKeywords /\ r.aiCategories = <<>>
        THEN LET nlp == IF "nlp" \in r.topics THEN <<"nlp">> ELSE <<>>
             IN  [r EXCEPT !.isAIRepository = TRUE,
                           !.aiCategories = IF nlp # <<>> THEN nlp
                                            ELSE <<"machine-learning">>]
        ELSE r

\* GitHubRepositorySchema.pre('save'), Date.now() and new Date() reading day t
preSaveRepo(r, t) ==
    LET scored == [r EXCEPT !.trendingScore = calculateTrendingScore(r, t)]
        final == [scored EXCEPT !.finalScore = calculateFinalScore(scored, t),
                                !.updatedAt = t]
        marked == [final EXCEPT !.trending = final.trendingScore >= 70 \/ final.dailyStars >= 10]
    IN  categorise(marked)

\* a new document with the upstream metrics and the user score as given, and
\* the schema defaults elsewhere
NewRepo(stars, forks, issues, pushedAt, topics, dailyStars, userScore) ==
    [stargazersCount |-> stars, forksCount |-> forks, openIssuesCount |-> issues,
     pushedAt |-> pushedAt, topics |-> topics, dailyStars |-> dailyStars,
     userScore |-> userScore, viewCount |-> 0, clickCount |-> 0,
     trending |-> FALSE, trendingScore |-> 0, finalScore |-> 0, updatedAt |-> 0,
     isAIRepository |-> FALSE, aiCategories |-> <<>>]

\* the clock never runs backwards: a reading is no earlier than the last save
Readings(r) == {t \in Days : t >= r.updatedAt}

\* save() of a repository with no path changed
SaveRepo(t) ==
    /\ t \in Readings(repo)
    /\ repo' = preSaveRepo(repo, t)
    /\ UNCHANGED <<articles, feedStore, pass, lastRun, accounts, streak, now, selected, aimodel, hub, db, ser>>

\* incrementViewCount
IncrementViewCount(t) ==
    /\ t \in Readings(repo)
    /\ repo.viewCount + repo.clickCount < MaxRepoHits
    /\ repo' = preSaveRepo([repo EXCEPT !.viewCount = @ + 1], t)
    /\ UNCHANGED <<articles, feedStore, pass, lastRun, accounts, streak, now, selected, aimodel, hub, db, ser>>

\* incrementClickCount
IncrementClickCount(t) ==
    /\ t \in Readings(repo)
    /\ repo.viewCount + repo.clickCount < MaxRepoHits
    /\ repo' = preSaveRepo([repo EXCEPT !.clickCount = @ + 1], t)
    /\ UNCHANGED <<articles, feedStore, pass, lastRun, accounts, streak, now, selected, aimodel, hub, db, ser>>

----------------------------------------------------------------------------
\* XAccount sync eligibility (models/XAccount.ts)

\* one hour, in clock ticks
SyncInterval == 1
\* getAccountsNeedingSync(limit = 10)
DefaultLimit == 10
Limits == {1, DefaultLimit}

\* needsSync
needsSync(acc, t) ==
    IF ~acc.isEnabled THEN FALSE
    ELSE IF acc.lastSyncAt = NoDate THEN TRUE
    ELSE acc.lastSyncAt < t - SyncInterval

\* the filter of getAccountsNeedingSync without its isEnabled clause
matchesSyncFilterAnyState(acc, t) ==
    \/ acc.lastSyncAt = NoDate
    \/ acc.lastSyncAt # NoDate /\ acc.lastSyncAt < t - SyncInterval

\* the filter of getAccountsNeedingSync:
\* {isEnabled: true, $or: [{lastSyncAt: {$exists: false}}, {lastSyncAt: {$lt: oneHourAgo}}]}
matchesSyncFilter(acc, t) ==
    /\ acc.isEnabled = TRUE
    /\ \/ acc.lastSyncAt = NoDate
       \/ acc.lastSyncAt # NoDate /\ acc.lastSyncAt < t - SyncInterval

\* getAccountsNeedingSync: the possible results of
\* find(filter).sort({priority: -1, lastSyncAt: 1}).limit(limit). Every
\* modelled account has the priority createXAccount gives, so the order is by
\* lastSyncAt, a missing one first; accounts that tie come in any order.
getAccountsNeedingSync(accs, t, limit) ==
    LET matching == {h \in DOMAIN accs : matchesSyncFilter(accs[h], t)}
    IN  {S \in SUBSET matching :
            /\ Cardinality(S) = Min(limit, Cardinality(matching))
            /\ \A h \in S, g \in matching \ S : accs[h].lastSyncAt <= accs[g].lastSyncAt}

GetAccountsNeedingSync(limit) ==
    /\ \E S \in getAccountsNeedingSync(accounts, now, limit) : selected' = S
    /\ UNCHANGED <<articles, feedStore, pass, lastRun, accounts, streak, now, aimodel, repo, hub, db, ser>>

----------------------------------------------------------------------------
\* HuggingFace client: rate limit and response cache (utils/huggingface.ts)

\* RATE_LIMIT.requests
RateLimitRequests == 100
\* RATE_LIMIT.window (one minute), in clock ticks
RateLimitWindow == 1
\* CACHE_TTL (30 minutes), in clock ticks
CACHE_TTL == 2
\* makeHuggingFaceRequest calls admitted in one window, where a
\* specification does not follow the counter up to the limit
MaxHubCalls == 3

\* concurrent callers of makeHuggingFaceRequest
Callers == {"c1", "c2"}
\* cache keys: `${endpoint}:${JSON.stringify(options)}`
Keys == {"k1", "k2"}
\* parsed response bodies: an object, and the falsy body of JSON `null`
Responses == {"body", "null"}
Truthy(data) == data # "null"

NoEntry == [none |-> TRUE]
NoResult == [kind |-> "none", data |-> "none"]
IdleCall == [pc |-> "idle", key |-> "none", result |-> NoResult]

\* the module as loaded at time 0: RATE_LIMIT, an empty cache, no call
NewHub(apiKey) ==
    [current |-> 0, resetTime |-> 0 + RateLimitWindow,
     apiKey |-> apiKey,     \* whether process.env.HUGGINGFACE_API_KEY is set
     cache |-> [k \in Keys |-> NoEntry],
     calls |-> [c \in Callers |-> IdleCall],
     admitted |-> 0]        \* history: calls checkRateLimit let through since the last reset

\* the window test of checkRateLimit: now > RATE_LIMIT.resetTime
WindowOver(h, t) == t > h.resetTime

\* checkRateLimit testing current > requests where the code has >=
checkRateLimitLate(h, t) ==
    LET fresh == IF WindowOver(h, t)
                 THEN [h EXCEPT !.current = 0, !.resetTime = t + RateLimitWindow]
                 ELSE h
    IN  IF fresh.current > RateLimitRequests
        THEN [ok |-> FALSE, hub |-> fresh]
        ELSE [ok |-> TRUE, hub |-> [fresh EXCEPT !.current = @ + 1]]

\* checkRateLimit: its return value and RATE_LIMIT afterwards
checkRateLimit(h, t) ==
    LET fresh == IF WindowOver(h, t)
                 THEN [h EXCEPT !.current = 0, !.resetTime = t + RateLimitWindow]
                 ELSE h
    IN  IF fresh.current >= RateLimitRequests
        THEN [ok |-> FALSE, hub |-> fresh]
        ELSE [ok |-> TRUE, hub |-> [fresh EXCEPT !.current = @ + 1]]

\* getCachedData returning an entry up to and at its expiry
getCachedDataLate(cache, key, t) ==
    IF cache[key] # NoEntry /\ cache[key].expires >= t
    THEN [found |-> TRUE, data |-> cache[key].data, cache |-> cache]
    ELSE [found |-> FALSE, data |-> "none", cache |-> [cache EXCEPT ![key] = NoEntry]]

\* getCachedData: the data of an entry that has not expired, or null after
\* deleting an entry that has
getCachedData(cache, key, t) ==
    IF cache[key] # NoEntry /\ cache[key].expires > t
    THEN [found |-> TRUE, data |-> cache[key].data, cache |-> cache]
    ELSE [found |-> FALSE, data |-> "none", cache |-> [cache EXCEPT ![key] = NoEntry]]

\* setCachedData; storedAt is history, the time of the cache.set
setCachedData(cache, key, data, t) ==
    [cache EXCEPT ![key] = [data |-> data, expires |-> t + CACHE_TTL, storedAt |-> t]]

\* makeHuggingFaceRequest from its call to its first await: the rate limit,
\* the API key, the cache lookup, and the fetch being issued on a miss
BeginRequest(h, c, key, t) ==
    LET checked == checkRateLimit(h, t)
        counted == [checked.hub EXCEPT !.admitted =
                       (IF WindowOver(h, t) THEN 0 ELSE @) + (IF checked.ok THEN 1 ELSE 0)]
        cached == getCachedData(counted.cache, key, t)
        looked == [counted EXCEPT !.cache = cached.cache]
        thrown(kind) == [pc |-> "idle", key |-> key, result |-> [kind |-> kind, data |-> "none"]]
    IN  IF ~checked.ok THEN [counted EXCEPT !.calls[c] = thrown("rateLimited")]
        ELSE IF ~h.apiKey THEN [counted EXCEPT !.calls[c] = thrown("notConfigured")]
        ELSE IF cached.found /\ Truthy(cached.data)
             THEN [looked EXCEPT !.calls[c] =
                      [pc |-> "idle", key |-> key,
                       result |-> [kind |-> "hit", data |-> cached.data]]]
             ELSE [looked EXCEPT !.calls[c] = [pc |-> "fetch", key |-> key, result |-> NoResult]]

\* a caller calls makeHuggingFaceRequest while it has no call in flight and
\* fewer than `budget` calls were admitted in this window
MakeRequest(c, key, budget) ==
    /\ hub.calls[c].pc = "idle"
    /\ hub.admitted < budget \/ WindowOver(hub, now)
    /\ hub' = BeginRequest(hub, c, key, now)
    /\ UNCHANGED <<articles, feedStore, pass, lastRun, accounts, streak, now, selected, aimodel, repo, db, ser>>

\* the call throws: the catch block logs and rethrows
Thrown(h, c) ==
    [h EXCEPT !.calls[c] = [pc |-> "idle", key |-> h.calls[c].key,
                            result |-> [kind |-> "error", data |-> "none"]]]

\* fetch rejects
FetchFails(c) ==
    /\ hub.calls[c].pc = "fetch"
    /\ hub' = Thrown(hub, c)
    /\ UNCHANGED <<articles, feedStore, pass, lastRun, accounts, streak, now, selected, aimodel, repo, db, ser>>

\* fetch resolves to a response that is not ok: response.text() is awaited
FetchNotOk(c) ==
    /\ hub.calls[c].pc = "fetch"
    /\ hub' = [hub EXCEPT !.calls[c].pc = "text"]
    /\ UNCHANGED <<articles, feedStore, pass, lastRun, accounts, streak, now, selected, aimodel, repo, db, ser>>

\* response.text() settles: the error is thrown
TextSettles(c) ==
    /\ hub.calls[c].pc = "text"
    /\ hub' = Thrown(hub, c)
    /\ UNCHANGED <<articles, feedStore, pass, lastRun, accounts, streak, now, selected, aimodel, repo, db, ser>>

\* fetch resolves to an ok response: response.json() is awaited
FetchOk(c) ==
    /\ hub.calls[c].pc = "fetch"
    /\ hub' = [hub EXCEPT !.calls[c].pc = "json"]
    /\ UNCHANGED <<articles, feedStore, pass, lastRun, accounts, streak, now, selected, aimodel, repo, db, ser>>

\* response.json() resolves: the body is cached and returned
JsonOk(c, data) ==
    /\ hub.calls[c].pc = "json"
    /\ hub' = [hub EXCEPT !.cache = setCachedData(@, hub.calls[c].key, data, now),
                          !.calls[c] = [pc |-> "idle", key |-> hub.calls[c].key,
                                        result |-> [kind |-> "data", data |-> data]]]
    /\ UNCHANGED <<articles, feedStore, pass, lastRun, accounts, streak, now, selected, aimodel, repo, db, ser>>

\* response.json() rejects
JsonFails(c) ==
    /\ hub.calls[c].pc = "json"
    /\ hub' = Thrown(hub, c)
    /\ UNCHANGED <<articles, feedStore, pass, lastRun, accounts, streak, now, selected, aimodel, repo, db, ser>>

----------------------------------------------------------------------------
\* MongoDB connection cache (lib/db/mongodb.ts)

\* mongoose.connect calls made in one behaviour
MaxAttempts == 3

\* the mongoose.connect calls, in the order they are made
Attempts == 1..MaxAttempts
\* null, for cached.conn and cached.promise
NoConn == 0
\* concurrent callers of connectToDatabase and of disconnectFromDatabase
Connectors == {"a", "b"}
Closers == {"x", "y"}

NoOutcome == [kind |-> "none", conn |-> NoConn]
IdleConnector == [pc |-> "idle", waits |-> NoConn, result |-> NoOutcome]

\* the module as loaded: cached = { conn: null, promise: null }; a resolved
\* attempt stands for the connection it established
NewDb(uri) ==
    [conn |-> NoConn, promise |-> NoConn,
     uri |-> uri,           \* whether process.env.MONGODB_URI is set
     status |-> [a \in Attempts |-> "unused"],
     connectors |-> [c \in Connectors |-> IdleConnector],
     closers |-> [x \in Closers |-> "idle"]]   \* "await", then "closed" or "failed"

Started(d) == {a \in Attempts : d.status[a] # "unused"}
Pending(d) == {a \in Attempts : d.status[a] = "pending"}
Waiters(d, a) == {c \in Connectors : d.connectors[c].pc = "await" /\ d.connectors[c].waits = a}

\* connectToDatabase from its call to its await: the cached connection is
\* returned, or the missing URI is thrown, or the caller awaits
\* cached.promise, which it creates with mongoose.connect if there is none
connectToDatabase(d, c) ==
    IF d.conn # NoConn
    THEN [d EXCEPT !.connectors[c] =
             [pc |-> "idle", waits |-> NoConn, result |-> [kind |-> "conn", conn |-> d.conn]]]
    ELSE IF ~d.uri
    THEN [d EXCEPT !.connectors[c] =
             [pc |-> "idle", waits |-> NoConn, result |-> [kind |-> "noUri", conn |-> NoConn]]]
    ELSE IF d.promise = NoConn
    THEN LET a == Cardinality(Started(d)) + 1
         IN  [d EXCEPT !.promise = a, !.status[a] = "pending",
                       !.connectors[c] = [pc |-> "await", waits |-> a, result |-> NoOutcome]]
    ELSE [d EXCEPT !.connectors[c] = [pc |-> "await", waits |-> d.promise, result |-> NoOutcome]]

ConnectToDatabase(c) ==
    /\ db.connectors[c].pc = "idle"
    /\ (db.conn = NoConn /\ db.uri /\ db.promise = NoConn) => Cardinality(Started(db)) < MaxAttempts
    /\ db' = connectToDatabase(db, c)
    /\ UNCHANGED <<articles, feedStore, pass, lastRun, accounts, streak, now, selected, aimodel, repo, hub, ser>>

\* mongoose.connect of attempt a resolves: every caller awaiting it resumes
\* in turn, sets cached.conn and returns it
ConnectResolves(a) ==
    /\ db.status[a] = "pending"
    /\ db' = [db EXCEPT !.status[a] = "resolved",
                        !.conn = IF Waiters(db, a) # {} THEN a ELSE @,
                        !.connectors = [c \in Connectors |->
                            IF c \in Waiters(db, a)
                            THEN [pc |-> "idle", waits |-> NoConn,
                                  result |-> [kind |-> "conn", conn |-> a]]
                            ELSE @[c]]]
    /\ UNCHANGED <<articles, feedStore, pass, lastRun, accounts, streak, now, selected, aimodel, repo, hub, ser>>

\* mongoose.connect of attempt a rejects: every caller awaiting it resumes in
\* turn, sets cached.promise = null and rethrows
ConnectRejects(a) ==
    /\ db.status[a] = "pending"
    /\ db' = [db EXCEPT !.status[a] = "rejected",
                        !.promise = IF Waiters(db, a) # {} THEN NoConn ELSE @,
                        !.connectors = [c \in Connectors |->
                            IF c \in Waiters(db, a)
                            THEN [pc |-> "idle", waits |-> NoConn,
                                  result |-> [kind |-> "error", conn |-> NoConn]]
                            ELSE @[c]]]
    /\ UNCHANGED <<articles, feedStore, pass, lastRun, accounts, streak, now, selected, aimodel, repo, hub, ser>>

\* disconnectFromDatabase from its call to its await: with a cached
\* connection it awaits cached.conn.disconnect(), without one it returns
DisconnectFromDatabase(x) ==
    /\ db.closers[x] # "await"
    /\ db' = [db EXCEPT !.closers[x] = IF db.conn # NoConn THEN "await" ELSE "idle"]
    /\ UNCHANGED <<articles, feedStore, pass, lastRun, accounts, streak, now, selected, aimodel, repo, hub, ser>>

\* cached.conn.disconnect() resolves: both fields are set to null
DisconnectResolves(x) ==
    /\ db.closers[x] = "await"
    /\ db' = [db EXCEPT !.conn = NoConn, !.promise = NoConn, !.closers[x] = "closed"]
    /\ UNCHANGED <<articles, feedStore, pass, lastRun, accounts, streak, now, selected, aimodel, repo, hub, ser>>

\* cached.conn.disconnect() rejects: disconnectFromDatabase throws
DisconnectRejects(x) ==
    /\ db.closers[x] = "await"
    /\ db' = [db EXCEPT !.closers[x] = "failed"]
    /\ UNCHANGED <<articles, feedStore, pass, lastRun, accounts, streak, now, selected, aimodel, repo, hub, ser>>

----------------------------------------------------------------------------
\* Serialization (lib/serialize.ts)

\* the length of an ObjectId hex string, /^[a-f\d]{24}$/i, scaled
OidLen == 2
\* the longest array of leaves handed to serializeDoc
MaxWidth == 2

\* values are records with a kind; strings are sequences over "h" (a hex
\* digit), "x" (any other character but a comma) and ","
VNull == [kind |-> "null"]
VUndefined == [kind |-> "undefined"]
VFunction == [kind |-> "function"]
VBool(b) == [kind |-> "boolean", val |-> b]
VNumber(n) == [kind |-> "number", val |-> n]
VString(s) == [kind |-> "string", text |-> s]
VDate(valid) == [kind |-> "date", valid |-> valid]
VObjectId == [kind |-> "oid"]           \* an ObjectId instance
VOther == [kind |-> "other"]            \* an instance of another class (Map, Buffer)
VArray(items) == [kind |-> "array", items |-> items]
VObject(entries) == [kind |-> "object", entries |-> entries]    \* Object.entries
\* a reference to the up-th enclosing array or object: a cycle
VBackref(up) == [kind |-> "backref", up |-> up]
\* RangeError: Maximum call stack size exceeded
RangeError == [kind |-> "RangeError"]
NoValue == [kind |-> "none"]

OidHex == [i \in 1..OidLen |-> "h"]
\* what Date.prototype.toISOString returns
IsoText == <<"h", "x", "h">>
\* /^[a-f\d]{24}$/i.test(s)
IsOidString(s) == Len(s) = OidLen /\ \A i \in 1..Len(s) : s[i] = "h"

\* DEFAULT_OPTIONS.omitKeys
omitKeys == {"__v", "$__"}
ObjKeys == {"k", "__v", "$oid"}

Leaves ==
    {VNull, VUndefined, VFunction, VBool(TRUE), VNumber(7), VString(OidHex), VString(<<"h">>),
     VString(<<"x">>), VDate(TRUE), VDate(FALSE), VObjectId, VOther}
\* the arrays of at most n items and the objects of at most one entry over elems
Containers(elems, n) ==
    {VArray(items) : items \in UNION {[1..len -> elems] : len \in 0..n}}
        \cup {VObject(<<>>)}
        \cup {VObject(<<[key |-> key, val |-> val]>>) : key \in ObjKeys, val \in elems}
Level1 == Containers(Leaves \cup {VBackref(1)}, MaxWidth)
Nested == Containers(Leaves \cup {VBackref(1), VBackref(2)}, 1)
Level2 == Containers(Nested, 1)
Inputs == Leaves \cup Level1 \cup Level2

\* the value at position pos (child indices from the root) of root
RECURSIVE NodeAt(_, _)
NodeAt(root, pos) ==
    IF pos = <<>> THEN root
    ELSE NodeAt(IF root.kind = "array" THEN root.items[Head(pos)]
                ELSE root.entries[Head(pos)].val, Tail(pos))
\* the position of the array or object a back-reference at pos refers to
Target(root, pos) == SubSeq(pos, 1, Len(pos) - NodeAt(root, pos).up)

\* String(value) as Array.prototype.join computes it for an item, and
\* value.toString(); `joining` holds the arrays being joined, for which join
\* returns the empty string
RECURSIVE toStringOf(_, _, _)
RECURSIVE joinItems(_, _, _, _)
toStringOf(root, pos, joining) ==
    LET value == NodeAt(root, pos)
    IN  CASE value.kind = "backref" -> toStringOf(root, Target(root, pos), joining)
          [] value.kind = "array" ->
                IF pos \in joining THEN <<>>
                ELSE joinItems(root, pos, 1, joining \cup {pos})
          [] value.kind = "string" -> value.text
          [] value.kind \in {"null", "undefined"} -> <<>>
          [] value.kind = "number" -> <<"h">>       \* digits, fewer than an id has
          [] value.kind = "oid" -> OidHex
          [] OTHER -> <<"x">>   \* "true", "[object Object]", a date, a function's text
joinItems(root, pos, i, joining) ==
    LET items == NodeAt(root, pos).items
    IN  IF i > Len(items) THEN <<>>
        ELSE (IF i > 1 THEN <<",">> ELSE <<>>)
                 \o toStringOf(root, pos \o <<i>>, joining)
                 \o joinItems(root, pos, i + 1, joining)

NoOid == [found |-> FALSE, s |-> <<>>]
\* coerceObjectIdString of an object that is no Date
coerceObjectIdString(root, pos) ==
    LET value == NodeAt(root, pos)
        oidEntries == IF value.kind # "object" THEN {}
                      ELSE {i \in 1..Len(value.entries) :
                               /\ value.entries[i].key = "$oid"
                               /\ value.entries[i].val.kind = "string"}
        test(s) == IF IsOidString(s) THEN [found |-> TRUE, s |-> s] ELSE NoOid
    IN  IF oidEntries # {}
        THEN test(value.entries[CHOOSE i \in oidEntries : TRUE].val.text)
        ELSE IF value.kind = "oid" THEN test(OidHex)
        ELSE test(toStringOf(root, pos, {}))

Serialized(r) == r # VUndefined
\* serializeValue: `seen` holds the positions of the plain objects being
\* serialized; `stack` holds the (array, seen) pairs of the calls in
\* progress, and a call that repeats one of them recurses without end
RECURSIVE serializeValue(_, _, _, _)
serializeValue(root, pos, seen, stack) ==
    LET value == NodeAt(root, pos)
    IN  CASE value.kind = "backref" -> serializeValue(root, Target(root, pos), seen, stack)
          [] value.kind = "null" -> VNull
          [] value.kind \in {"string", "number", "boolean"} -> value
          [] value.kind \in {"undefined", "function"} -> VUndefined
          [] value.kind = "date" -> IF value.valid THEN VString(IsoText) ELSE VNull
          [] OTHER ->
                LET oid == coerceObjectIdString(root, pos)
                    n == IF value.kind = "array" THEN Len(value.items)
                         ELSE IF value.kind = "object" THEN Len(value.entries) ELSE 0
                    kept == IF value.kind = "array" THEN 1..n
                            ELSE {i \in 1..n : value.entries[i].key \notin omitKeys}
                    inner == [i \in 1..n |->
                                 IF i \in kept
                                 THEN serializeValue(root, pos \o <<i>>,
                                          IF value.kind = "object" THEN seen \cup {pos} ELSE seen,
                                          IF value.kind = "array"
                                          THEN stack \cup {<<pos, seen>>} ELSE stack)
                                 ELSE VUndefined]
                    Kept(i) == Serialized(inner[i])
                    indices == SelectSeq([i \in 1..n |-> i], Kept)
                IN  IF oid.found THEN VString(oid.s)
                    ELSE IF value.kind = "other" THEN VNull
                    ELSE IF value.kind = "object" /\ pos \in seen THEN VObject(<<>>)
                    ELSE IF value.kind = "array" /\ <<pos, seen>> \in stack THEN RangeError
                    ELSE IF \E i \in 1..n : inner[i] = RangeError THEN RangeError
                    ELSE IF value.kind = "array"
                    THEN VArray([j \in 1..Len(indices) |-> inner[indices[j]]])
                    ELSE VObject([j \in 1..Len(indices) |->
                                     [key |-> value.entries[indices[j]].key,
                                      val |-> inner[indices[j]]]])

\* serializeDoc: serializeValue(doc, new WeakSet(), opts) ?? null
serializeDoc(doc) ==
    LET r == serializeValue(doc, <<>>, {}, {})
    IN  IF r = VUndefined THEN VNull ELSE r

NewSer(doc) == [pc |-> "input", input |-> doc, out |-> NoValue, again |-> NoValue]

\* serializeDoc(input) returns or throws
SerializeDoc ==
    /\ ser.pc = "input"
    /\ ser' = [ser EXCEPT !.pc = "once", !.out = serializeDoc(ser.input)]
    /\ UNCHANGED <<articles, feedStore, pass, lastRun, accounts, streak, now, selected, aimodel, repo, hub, db>>

\* the value it returned is handed to serializeDoc again
SerializeAgain ==
    /\ ser.pc = "once"
    /\ ser.out # RangeError
    /\ ser' = [ser EXCEPT !.pc = "twice", !.again = serializeDoc(ser.out)]
    /\ UNCHANGED <<articles, feedStore, pass, lastRun, accounts, streak, now, selected, aimodel, repo, hub, db>>

----------------------------------------------------------------------------
\* Specifications

FeedDoc(isActive) ==
    [isActive |-> isActive, lastFetched |-> NoDate, lastError |-> NoError, itemCount |-> 0]

\* an empty Article collection, idle passes, and feed f1 active; f2 is active
\* or not as `second` allows
InitSync(second) ==
    /\ articles = {}
    /\ \E b \in second : feedStore = [f \in FeedIds |-> FeedDoc(f = "f1" \/ b)]
    /\ pass = [p \in PassIds |-> IdlePass]
    /\ lastRun = NoRun

InitAccounts ==
    /\ accounts \in [Handles -> {createXAccount(c, e) : c \in Categories, e \in BOOLEAN}]
    /\ streak = [h \in Handles |-> Streak(accounts[h])]
    /\ now = 0

\* the accounts of a specification that is about the feed sync only
FixedAccounts ==
    /\ accounts = [h \in Handles |-> createXAccount("AI_NEWS", TRUE)]
    /\ streak = [h \in Handles |-> 0]
    /\ now = 0

\* an idle feed sync over an empty Article collection
IdleSync ==
    /\ articles = {}
    /\ feedStore = [f \in FeedIds |-> FeedDoc(TRUE)]
    /\ pass = [p \in PassIds |-> IdlePass]
    /\ lastRun = NoRun

\* a repository created on day 0 and saved once
CreatedRepo(stars, forks, issues, pushedAt, topics, dailyStars, userScore) ==
    preSaveRepo(NewRepo(stars, forks, issues, pushedAt, topics, dailyStars, userScore), 0)

\* no selection made, a new AIModel and a new repository: the scores of a
\* specification that is about something else
FixedScores ==
    /\ selected = {}
    /\ aimodel = [doc |-> NewAIModel, stored |-> NewAIModel]
    /\ repo = CreatedRepo(0, 0, 0, 0, {}, 0, 0)
\* the HuggingFace client as loaded, with its API key configured
FixedHub == hub = NewHub(TRUE)
\* the connection cache as loaded, with MONGODB_URI set
FixedDb == db = NewDb(TRUE)
\* no value serialized
FixedSer == ser = NewSer(VNull)
FixedClients == FixedHub /\ FixedDb /\ FixedSer

\* one step of pass p, the upstream feeds serving any of `batches`
PassStep(p, batches) ==
    \/ Start(p)
    \/ ParseNull(p)
    \/ \E batch \in batches : ParseOk(p, batch)
    \/ ConnectFails(p)
    \/ FindOne(p)
    \/ SaveOk(p)
    \/ SaveFails(p)
    \/ StatusOk(p)
    \/ StatusFails(p)
    \/ CatchOk(p)
    \/ CatchFails(p)

\* overlapping passes over one feed of at most one item: a manual trigger
\* while the scheduled pass runs
Init == InitSync({FALSE}) /\ FixedAccounts /\ FixedScores /\ FixedClients
Next == \E p \in PassIds : PassStep(p, ShortBatches)
Spec == Init /\ [][Next]_vars

\* one pass at a time over one or both feeds
SeqInit == InitSync(BOOLEAN) /\ FixedAccounts /\ FixedScores /\ FixedClients
SeqNext == PassStep("scheduled", Batches)
SeqSpec == SeqInit /\ [][SeqNext]_vars

\* one pass at a time over one feed, with readers engaging with the stored
\* articles between and during the passes
RerunInit == Init
RerunNext ==
    \/ PassStep("scheduled", Batches)
    \/ \E a \in articles : IncrementViews(a)
    \/ \E a \in articles, type \in {"like", "dislike"} : AddEngagement(a, type)
RerunSpec == RerunInit /\ [][RerunNext]_vars

\* the XAccount collection under sync results and admin bulk updates
XInit == IdleSync /\ InitAccounts /\ FixedScores /\ FixedClients
XNext ==
    \/ \E h \in Handles : MarkSyncSuccess(h)
    \/ \E h \in Handles, error \in ErrorTexts : MarkSyncError(h, error)
    \/ \E c \in Categories, e \in BOOLEAN : BulkUpdateCategory(c, e)
    \/ Tick
XSpec == XInit /\ [][XNext]_vars

\* sync passes over the XAccount collection: the eligible accounts are
\* queried, synced accounts are marked, admins enable and disable categories
SelectInit == XInit
SelectNext ==
    \/ \E limit \in Limits : GetAccountsNeedingSync(limit)
    \/ \E h \in Handles : MarkSyncSuccess(h)
    \/ \E c \in Categories, e \in BOOLEAN : BulkUpdateCategory(c, e)
    \/ Tick
SelectSpec == SelectInit /\ [][SelectNext]_vars

\* one AIModel under ratings and hub syncs, next to one repository that is
\* saved again as time passes
ScoreInit ==
    /\ IdleSync
    /\ FixedAccounts
    /\ selected = {}
    /\ aimodel = [doc |-> NewAIModel, stored |-> NewAIModel]
    /\ \E userScore \in {0, 100} : repo = CreatedRepo(9999, 0, 0, 0, {}, 0, userScore)
    /\ FixedClients
ScoreNext ==
    \/ \E newVoteCount \in VoteCounts, newAvgRating \in Ratings :
          UpdateUserRating(newVoteCount, newAvgRating)
    \/ \E hfModel \in HubModels : SyncFromHuggingFace(hfModel)
    \/ ReloadAIModel
    \/ \E t \in Days : SaveRepo(t)
ScoreSpec == ScoreInit /\ [][ScoreNext]_vars

\* one repository, created from any upstream metrics, under views, clicks
\* and plain saves as time passes
RepoInit ==
    /\ IdleSync
    /\ FixedAccounts
    /\ selected = {}
    /\ aimodel = [doc |-> NewAIModel, stored |-> NewAIModel]
    /\ \E stars \in StarCounts, forks \in ForkCounts, issues \in IssueCounts,
          pushedAt \in {NoDate, 0}, topics \in TopicSets,
          dailyStars \in DailyStars, userScore \in UserScores :
          repo = CreatedRepo(stars, forks, issues, pushedAt, topics, dailyStars, userScore)
    /\ FixedClients
RepoNext ==
    \/ \E t \in Days : SaveRepo(t)
    \/ \E t \in Days : IncrementViewCount(t)
    \/ \E t \in Days : IncrementClickCount(t)
RepoSpec == RepoInit /\ [][RepoNext]_vars

\* callers of makeHuggingFaceRequest for one endpoint, as many as the rate
\* limit admits and more, as the windows pass; the API key set or missing
RateInit ==
    /\ IdleSync /\ FixedAccounts /\ FixedScores
    /\ \E apiKey \in BOOLEAN : hub = NewHub(apiKey)
    /\ FixedDb /\ FixedSer
RateNext ==
    \/ \E c \in Callers : MakeRequest(c, "k1", RateLimitRequests + 1)
    \/ \E c \in Callers : FetchFails(c)
    \/ \E c \in Callers : FetchNotOk(c)
    \/ \E c \in Callers : TextSettles(c)
    \/ \E c \in Callers : FetchOk(c)
    \/ \E c \in Callers : JsonOk(c, "body")
    \/ \E c \in Callers : JsonFails(c)
    \/ Tick
RateSpec == RateInit /\ [][RateNext]_vars

\* a few calls of makeHuggingFaceRequest per window over two cache keys,
\* whose entries are written, read and expire as time passes
CacheInit == IdleSync /\ FixedAccounts /\ FixedScores /\ FixedClients
CacheNext ==
    \/ \E c \in Callers, key \in Keys : MakeRequest(c, key, MaxHubCalls)
    \/ \E c \in Callers : FetchFails(c)
    \/ \E c \in Callers : FetchNotOk(c)
    \/ \E c \in Callers : TextSettles(c)
    \/ \E c \in Callers : FetchOk(c)
    \/ \E c \in Callers, data \in Responses : JsonOk(c, data)
    \/ \E c \in Callers : JsonFails(c)
    \/ Tick
CacheSpec == CacheInit /\ [][CacheNext]_vars

\* callers of connectToDatabase and disconnectFromDatabase overlapping in
\* any way, the connects and disconnects resolving or rejecting
ConnInit ==
    /\ IdleSync /\ FixedAccounts /\ FixedScores /\ FixedHub
    /\ \E uri \in BOOLEAN : db = NewDb(uri)
    /\ FixedSer
ConnNext ==
    \/ \E c \in Connectors : ConnectToDatabase(c)
    \/ \E a \in Attempts : ConnectResolves(a)
    \/ \E a \in Attempts : ConnectRejects(a)
    \/ \E x \in Closers : DisconnectFromDatabase(x)
    \/ \E x \in Closers : DisconnectResolves(x)
    \/ \E x \in Closers : DisconnectRejects(x)
ConnSpec == ConnInit /\ [][ConnNext]_vars

\* serializeDoc applied to a value, and again to what it returned
SerInit ==
    /\ IdleSync /\ FixedAccounts /\ FixedScores /\ FixedHub /\ FixedDb
    /\ \E doc \in Inputs : ser = NewSer(doc)
SerNext ==
    \/ SerializeDoc
    \/ SerializeAgain
SerSpec == SerInit /\ [][SerNext]_vars

----------------------------------------------------------------------------
\* Claims

\* C1: at no time are two sync runs over the same feed in progress: while one
\* pass handles feed f, no other pass handles f.
C1_OneRunPerFeed ==
    \A f \in FeedIds : \A p, q \in PassIds :
        (Handling(pass[p], f) /\ Handling(pass[q], f)) => p = q

\* two stored articles resolve to one identity: same url / originalUrl, or
\* same title within the same feed
SameIdentity(a, b) ==
    \/ a.url = b.url
    \/ a.url = b.originalUrl
    \/ a.originalUrl = b.url
    \/ (a.title = b.title /\ a.feedId = b.feedId)

\* C2: after any interleaving of sync runs the Article collection holds at
\* most one document per resolved identity.
C2_OneRecordPerIdentity ==
    \A a, b \in articles : SameIdentity(a, b) => a = b

LastResult(ps) == ps.feedResults[Len(ps.feedResults)]

EntriesFor(ps, f) == {k \in 1..Len(ps.feedResults) : ps.feedResults[k].feedId = f}

\* C5: no error raised while handling one feed aborts the pass, and when the
\* pass ends every feed selected at its start has exactly one entry in
\* feedResults.
C5_EveryFeedOneEntry ==
    \A p \in PassIds :
        /\ pass[p].pc # "aborted"
        /\ pass[p].pc = "done" =>
              \A k \in 1..Len(pass[p].feeds) :
                  Cardinality(EntriesFor(pass[p], pass[p].feeds[k])) = 1

\* C6: after 5 markSyncError calls in a row on an account that was enabled
\* with syncErrorCount 0 the account is disabled, and after 1 to 4 such calls
\* it is still enabled.
C6_DisabledAtFiveFailures ==
    \A h \in Handles :
        /\ streak[h] \in 1..4 => accounts[h].isEnabled
        /\ streak[h] >= 5 => ~accounts[h].isEnabled

C6_Witness ==
    \E h \in Handles : streak[h] = 5 /\ ~accounts[h].isEnabled

\* C7: one markSyncSuccess on an enabled account with syncErrorCount 0..4 sets
\* syncErrorCount to 0, clears lastSyncError and records lastSyncAt, leaving
\* the account enabled with a full run of 5 failures ahead of it.
C7_SuccessResets ==
    [][\A h \in Handles :
          (/\ accounts[h].isEnabled
           /\ accounts[h].syncErrorCount \in 0..4
           /\ MarkSyncSuccess(h)) =>
              /\ accounts'[h].syncErrorCount = 0
              /\ accounts'[h].lastSyncError = NoError
              /\ accounts'[h].lastSyncAt = now
              /\ accounts'[h].isEnabled
              /\ streak'[h] = 0]_vars

C7_Witness ==
    \E h \in Handles :
        /\ now > 0
        /\ accounts[h].lastSyncAt = now
        /\ accounts[h].syncErrorCount = 0
        /\ accounts[h].lastSyncError = NoError
        /\ accounts[h].isEnabled

\* C8: a matched item whose normalized title differs from the stored
\* document's is updated and not counted skipped.
C8_DifferingMatchUpdated ==
    [][\A p \in PassIds :
          (/\ pass[p].pc = "find"
           /\ pass'[p] # pass[p]
           /\ pass'[p].existingArticle # Null
           /\ pass'[p].existingArticle.title # Trim(CurItem(pass[p]).title)) =>
              /\ pass'[p].skipped = pass[p].skipped
              /\ \E b \in articles' :
                    /\ b.url = pass'[p].existingArticle.url
                    /\ b.title = Trim(CurItem(pass[p]).title)]_vars

\* C9: when a stored document matches the incoming item by url, the lookup
\* resolves to a document matching by url, whatever else matches by title.
C9_UrlMatchWins ==
    [][\A p \in PassIds :
          (/\ pass[p].pc = "find"
           /\ pass'[p] # pass[p]
           /\ \E b \in articles : MatchesUrl(b, CurItem(pass[p]))) =>
              MatchesUrl(pass'[p].existingArticle, CurItem(pass[p]))]_vars

\* C10, for batches without a failed write: the later of two items with the
\* same link is reported as a match, so its lookup never resolves to null
\* and it never goes on to be saved.
C10_SecondOfSameLinkMatches ==
    \A p \in PassIds :
        ~(/\ pass[p].pc = "save"
          /\ pass[p].errors = 0
          /\ \E j \in 1..(pass[p].ii - 1) :
                pass[p].items[j].link = CurItem(pass[p]).link)

\* C11: the final score is within [0,100] and never decreases when one of
\* its two inputs increases and the other is held: for the stored AIModel
\* (finalScore = huggingFaceScore * 0.85 + userScore * 0.15) and for the
\* stored GitHubRepository (calculateFinalScore, rounded), against every
\* higher external score and every higher local score in [0,100].
C11_FinalScoreBoundedMonotone ==
    LET s == aimodel.stored
    IN  /\ s.finalScore >= 0 /\ s.finalScore <= 100 * Unit
        /\ \A e \in 0..100 :
              e * Unit >= s.huggingFaceScore
                  => finalScoreOf(e * Unit, s.userScore) >= s.finalScore
        /\ \A l \in 0..100 :
              l * Unit >= s.userScore
                  => finalScoreOf(s.huggingFaceScore, l * Unit) >= s.finalScore
        /\ repo.finalScore >= 0 /\ repo.finalScore <= 100
        /\ \A g \in 0..100 :
              g >= repo.trendingScore
                  => roundedFinalScore(g, repo.userScore) >= repo.finalScore
        /\ \A u \in 0..100 :
              u >= repo.userScore
                  => roundedFinalScore(repo.trendingScore, u) >= repo.finalScore

\* both inputs of the AIModel at 100, and the repository saved again later
C11_Witness ==
    /\ aimodel.stored.huggingFaceScore = 100 * Unit
    /\ aimodel.stored.userScore = 100 * Unit
    /\ aimodel.stored.finalScore = 100 * Unit
    /\ repo.updatedAt > 0
    /\ repo.userScore = 100

\* C12: after any sequence of updateUserRating and syncFromHuggingFace calls
\* the stored finalScore is 0.85 * the stored huggingFaceScore + 0.15 * the
\* stored userScore, and the stored userScore is the one derived from the
\* stored userVotes and userRating.
C12_StoredScoresFollowInputs ==
    LET s == aimodel.stored
    IN  /\ 100 * s.finalScore = 85 * s.huggingFaceScore + 15 * s.userScore
        /\ s.userScore = userScoreOf(s)

\* synced and rated, and a later update rejected by validation
C12_Witness ==
    /\ aimodel.stored.huggingFaceScore > 0
    /\ aimodel.stored.userScore > 0
    /\ aimodel.stored.lastSynced # NoDate
    /\ aimodel.doc.userRating > 5 * Unit

\* C13: saving a GitHubRepository again with no stored field changed leaves
\* its trendingScore and its finalScore as they were, whenever it is done.
C13_ResaveKeepsScores ==
    [][(\E t \in Days : SaveRepo(t))
          => /\ repo'.trendingScore = repo.trendingScore
             /\ repo'.finalScore = repo.finalScore]_vars

\* bounds on min(log10(downloads + 1) / log10(10,000,000 + 1) * 70, 70), from
\* the whole parts of the two logarithms
logDownloadLow(downloads) ==
    Min((Log10(downloads + 1) * 70 * Unit) \div (Log10(maxDownloads + 1) + 1), 70 * Unit)
logDownloadHigh(downloads) ==
    Min(((Log10(downloads + 1) + 1) * 70 * Unit) \div Log10(maxDownloads + 1) + 1, 70 * Unit)

\* C14: the huggingFaceScore the adapter hands to the AIModel is
\* min(log10(downloads+1)/log10(10,000,000+1) * 70, 70) + min(likes/1000 * 20, 20)
\* + (trending ? 10 : 0): its download part lies between the bounds of the
\* logarithmic term.
C14_LogScaledDownloads ==
    LET d == aimodel.doc
        downloadPart == d.huggingFaceScore - Min((d.likes * 20 * Unit) \div 1000, 20 * Unit)
                            - (IF d.trending THEN 10 * Unit ELSE 0)
    IN  /\ logDownloadLow(d.downloads) <= downloadPart
        /\ downloadPart <= logDownloadHigh(d.downloads)

\* C15: for all downloads and likes >= 0 and either trending value the
\* huggingFaceScore of transformHuggingFaceModel is within [0,100]: at most
\* 70 from downloads, at most 20 from likes, and 10 more exactly when trending.
C15_HubScoreBounded ==
    LET d == aimodel.doc
        bonus == IF d.trending THEN 10 * Unit ELSE 0
    IN  /\ d.huggingFaceScore >= 0 /\ d.huggingFaceScore <= 100 * Unit
        /\ d.huggingFaceScore - bonus >= 0
        /\ d.huggingFaceScore - bonus <= 90 * Unit
        /\ d.likes = 0 => d.huggingFaceScore - bonus <= 70 * Unit
        /\ d.downloads = 0 => d.huggingFaceScore - bonus <= 20 * Unit

\* downloads and likes above their reference counts, and trending
C15_Witness ==
    /\ aimodel.doc.downloads > maxDownloads
    /\ aimodel.doc.likes > 1000
    /\ aimodel.doc.trending
    /\ aimodel.doc.huggingFaceScore = 100 * Unit

\* C16: the stored userScore is 0 when userVotes is 0, and otherwise
\* (userRating / 5) * 80 + min(userVotes / 100 * 20, 20); it is within
\* [0,100], and the votes add at most 20 to the rating's share of up to 80.
C16_UserScoreFormula ==
    LET s == aimodel.stored
    IN  /\ s.userVotes = 0 => s.userScore = 0
        /\ s.userVotes > 0 =>
              /\ 500 * s.userScore
                     = 100 * 80 * s.userRating
                       + 5 * Min(20 * Unit * s.userVotes, 100 * 20 * Unit)
              /\ 5 * s.userScore - 80 * s.userRating >= 0
              /\ 5 * s.userScore - 80 * s.userRating <= 5 * 20 * Unit
              /\ 80 * s.userRating <= 5 * 80 * Unit
        /\ s.userScore >= 0 /\ s.userScore <= 100 * Unit

\* the best rating with votes past the cap of the bonus
C16_Witness ==
    /\ aimodel.stored.userVotes = 200
    /\ aimodel.stored.userRating = 5 * Unit
    /\ aimodel.stored.userScore = 100 * Unit
    /\ aimodel.doc = aimodel.stored

\* the accounts needsSync holds for at time t
Eligible(accs, t) == {h \in DOMAIN accs : needsSync(accs[h], t)}

C18_SuccessStampsFeed ==
    [][\A p \in PassIds :
          StatusOk(p) =>
              /\ feedStore'[CurFeed(pass[p])].lastFetched = now
              /\ feedStore'[CurFeed(pass[p])].lastError = NoError]_vars

\* C19: when parseFeed returns null the failure is stored on the feed's
\* record (an error message) and no article of the feed is created or changed.
C19_ParseFailureRecorded ==
    [][\A p \in PassIds :
          ParseNull(p) =>
              /\ feedStore'[CurFeed(pass[p])].lastError # NoError
              /\ {a \in articles' : a.feedId = CurFeed(pass[p])}
                     = {a \in articles : a.feedId = CurFeed(pass[p])}]_vars

\* C20: after any sequence of incrementViews and addEngagement calls the
\* stored ranking of every article is 2 * likes - dislikes + 0.1 * views of
\* its current counters.
C20_RankingFollowsCounters ==
    \A a \in articles : a.ranking = engagementScore(a)

\* two items of one feed resolve to the same identity: the same link, or the
\* same title as stored
SameItemIdentity(x, y) == x.link = y.link \/ Trim(x.title) = Trim(y.title)

RECURSIVE SuccessSum(_, _)
SuccessSum(entries, counter) ==
    IF entries = <<>> THEN 0
    ELSE (IF Head(entries).status = "success" THEN Head(entries)[counter] ELSE 0)
         + SuccessSum(Tail(entries), counter)

\* C27: processFeedItems counts every item once, so saved + skipped + errors
\* is the number of items handled so far and, when it returns, the number of
\* parsed items; the totals of processAllFeeds are the sums of the counters
\* of the 'success' entries.
C27_CountersAccount ==
    \A p \in PassIds :
        LET ps == pass[p]
            counted == ps.saved + ps.skipped + ps.errors
        IN  /\ ps.pc \in {"find", "save"} => counted = ps.ii - 1
            /\ ps.pc = "status" =>
                  /\ counted = Len(ps.items)
                  /\ LET last == ps.feedResults[Len(ps.feedResults)]
                     IN  last.saved + last.skipped + last.errors = Len(ps.items)
            /\ ps.totalSaved = SuccessSum(ps.feedResults, "saved")
            /\ ps.totalSkipped = SuccessSum(ps.feedResults, "skipped")
            /\ ps.totalErrors = SuccessSum(ps.feedResults, "errors")

\* a finished pass over two feeds with saved, skipped and failed items
C27_Witness ==
    \E p \in PassIds :
        /\ pass[p].pc = "done"
        /\ Len(pass[p].feedResults) >= 2
        /\ pass[p].totalSaved >= 1
        /\ pass[p].totalSkipped >= 1
        /\ pass[p].totalErrors >= 1

\* C28: an account whose syncErrorCount is 5 or more is disabled, and
\* syncErrorCount is never negative.
C28_FiveErrorsMeansDisabled ==
    \A h \in Handles :
        /\ accounts[h].syncErrorCount >= 0
        /\ accounts[h].syncErrorCount >= DisableThreshold => ~accounts[h].isEnabled

\* C29: for the metrics of the model last handed over by the adapter,
\* getModelStats gives the score and the trending value that
\* transformHuggingFaceModel gave.
C29_StatsAgreeWithTransform ==
    /\ getModelStats(aimodel.doc).score = aimodel.doc.huggingFaceScore
    /\ getModelStats(aimodel.doc).trending = aimodel.doc.trending

\* caller c calls makeHuggingFaceRequest for `key` in this step
Calls(c, key) == hub.calls[c].pc = "idle" /\ hub' = BeginRequest(hub, c, key, now)

\* C21: with callers overlapping in any way, RATE_LIMIT.current never exceeds
\* 100 and equals the number of calls admitted since the last window reset
\* (no increment is lost), so at most 100 calls are admitted between two
\* resets; a call that arrives inside the window with the counter at 100 is
\* rejected and leaves the counter unchanged.
C21_RateLimitHolds ==
    [][/\ hub'.current <= RateLimitRequests
       /\ hub'.admitted = hub'.current
       /\ \A c \in Callers, key \in Keys :
             (Calls(c, key) /\ ~WindowOver(hub, now) /\ hub.current = RateLimitRequests) =>
                 /\ hub'.calls[c].result.kind = "rateLimited"
                 /\ hub'.calls[c].pc = "idle"
                 /\ hub'.current = hub.current]_vars

C21_Witness ==
    \E c, d \in Callers :
        /\ hub.current = RateLimitRequests
        /\ ~WindowOver(hub, now)
        /\ hub.calls[c].result.kind = "rateLimited"
        /\ hub.calls[d].pc = "json"

\* C26: a call returns a cached response only from an entry stored under the
\* same key less than CACHE_TTL earlier; an entry read at or after its expiry
\* is deleted, not returned, and the request goes upstream; an entry is
\* stored only by a call whose response parsed, with the body it returns.
C26_CacheHonoursExpiry ==
    [][/\ \A c \in Callers, key \in Keys :
             Calls(c, key) =>
                 LET entry == hub.cache[key]
                     after == hub'.calls[c]
                 IN  /\ after.result.kind = "hit" =>
                            /\ entry # NoEntry
                            /\ now - entry.storedAt < CACHE_TTL
                            /\ after.result.data = entry.data
                     /\ ( /\ after.result.kind \notin {"rateLimited", "notConfigured"}
                          /\ entry # NoEntry
                          /\ now - entry.storedAt >= CACHE_TTL ) =>
                            /\ hub'.cache[key] = NoEntry
                            /\ after.pc = "fetch"
       /\ \A key \in Keys :
             (hub'.cache[key] # hub.cache[key] /\ hub'.cache[key] # NoEntry) =>
                 \E c \in Callers :
                     /\ hub.calls[c].pc = "json"
                     /\ hub.calls[c].key = key
                     /\ hub'.calls[c].result = [kind |-> "data", data |-> hub'.cache[key].data]
                     /\ hub'.cache[key].storedAt = now]_vars

C26_Witness ==
    \E c, d \in Callers :
        /\ hub.calls[c].result.kind = "hit"
        /\ hub.calls[d].pc = "fetch"
        /\ hub.cache[hub.calls[d].key] = NoEntry
        /\ hub.cache[hub.calls[c].key] # NoEntry
        /\ now >= CACHE_TTL

\* caller c calls connectToDatabase in this step
Connects(c) == db.connectors[c].pc = "idle" /\ db' = connectToDatabase(db, c)

\* C23: however connectToDatabase callers overlap, at most one
\* mongoose.connect attempt is pending at a time, every caller that waits
\* awaits that one attempt (so all receive the same connection), and a call
\* made while cached.conn is set returns it without a new mongoose.connect.
C23_OneConnectAtATime ==
    [][/\ Cardinality(Pending(db')) <= 1
       /\ \A c \in Connectors :
             db'.connectors[c].pc = "await" => Pending(db') = {db'.connectors[c].waits}
       /\ \A c \in Connectors :
             (Connects(c) /\ db.conn # NoConn) =>
                 /\ db'.connectors[c].result = [kind |-> "conn", conn |-> db.conn]
                 /\ Started(db') = Started(db)]_vars

\* C30: when a pending connect rejects, every caller awaiting it gets the
\* error, and cached.conn and cached.promise are null afterwards; a call made
\* with both fields null starts a new attempt; no caller ever awaits a
\* rejected attempt; a disconnectFromDatabase that found a connection and
\* whose disconnect resolved leaves both fields null.
C30_FailedConnectNotSticky ==
    [][/\ \A a \in Attempts :
             (db.status[a] = "pending" /\ db'.status[a] = "rejected") =>
                 /\ \A c \in Waiters(db, a) :
                       db'.connectors[c] = [pc |-> "idle", waits |-> NoConn,
                                            result |-> [kind |-> "error", conn |-> NoConn]]
                 /\ db'.conn = NoConn
                 /\ db'.promise = NoConn
       /\ \A c \in Connectors :
             /\ (Connects(c) /\ db.conn = NoConn /\ db.promise = NoConn /\ db.uri) =>
                     /\ db'.connectors[c].pc = "await"
                     /\ db'.connectors[c].waits \notin Started(db)
                     /\ db'.status[db'.connectors[c].waits] = "pending"
             /\ db'.connectors[c].pc = "await" =>
                     db'.status[db'.connectors[c].waits] # "rejected"
       /\ \A x \in Closers :
             (db.closers[x] = "await" /\ db'.closers[x] = "closed") =>
                 db'.conn = NoConn /\ db'.promise = NoConn]_vars

\* a finite JSON value: null, a string, number or boolean, or an array or
\* object of such values (the serialized values are at most three deep)
IsJSONLeaf(v) == v.kind \in {"null", "string", "number", "boolean"}
IsJSONOver(v, Inner(_)) ==
    \/ IsJSONLeaf(v)
    \/ v.kind = "array" /\ \A i \in 1..Len(v.items) : Inner(v.items[i])
    \/ v.kind = "object" /\ \A i \in 1..Len(v.entries) : Inner(v.entries[i].val)
IsJSON1(v) == IsJSONOver(v, IsJSONLeaf)
IsJSON2(v) == IsJSONOver(v, IsJSON1)
IsJSON(v) == IsJSONOver(v, IsJSON2)

\* C24: serializeDoc returns on every input, reference cycles through plain
\* objects and arrays included, and what it returns is a finite JSON value.
C24_SerializeDocReturns ==
    ser.pc # "input" => (ser.out # RangeError /\ IsJSON(ser.out))

\* C25: serializeDoc(serializeDoc(x)) equals serializeDoc(x) for every x
\* built from primitives, dates, object ids, arrays and plain objects.
C25_SerializeDocIdempotent ==
    ser.pc = "twice" => ser.again = ser.out

============================================================================
